---- MODULE Spec2Model ----
(***************************************************************************)
(* Model of agendar.py: the room dataset file, the three tool operations   *)
(* (get_especialidades, get_consultorios_disponibles, reservar_consultorio)*)
(* and the temp-file-and-replace write of _atomic_write.                   *)
(*                                                                         *)
(* Strings are sequences of one-character strings, so that strip(),        *)
(* lower() and strptime("%H:%M") are computed, not assumed.                *)
(***************************************************************************)
EXTENDS Integers, Sequences, FiniteSets, TLC

(***************************************************************************)
(* Bounds of the model.                                                    *)
(***************************************************************************)
\* the largest number of room records in the dataset document
MaxRooms == 2
\* json.dump reaches the temporary file in this many pieces
DumpChunks == 2

\* the processes that call the tools (two calls may overlap)
Procs == {"p1", "p2"}

(***************************************************************************)
(* Python strings.                                                         *)
(***************************************************************************)
Digits == {"0", "1", "2", "3", "4", "5", "6", "7", "8", "9"}

DigitVal(c) ==
  CASE c = "0" -> 0 [] c = "1" -> 1 [] c = "2" -> 2 [] c = "3" -> 3
    [] c = "4" -> 4 [] c = "5" -> 5 [] c = "6" -> 6 [] c = "7" -> 7
    [] c = "8" -> 8 [] c = "9" -> 9

IsSpace(c) == c = " "

\* str.lower() on the letters the model uses
LowerChar(c) ==
  CASE c = "R" -> "r" [] c = "S" -> "s" [] c = "O" -> "o" [] c = "N" -> "n"
    [] OTHER -> c

\* the element of a one-element set; {F(v) : v \in {x}} computes x once
Val(S) == CHOOSE x \in S : TRUE

Lower(str) == Val({[i \in 1..Len(s) |-> LowerChar(s[i])] : s \in {str}})

\* str.strip(): what lies between the first and the last non-blank character
Strip(str) ==
  LET from(s) == CHOOSE i \in 1..Len(s) + 1 :
                   /\ \A j \in 1..i - 1 : IsSpace(s[j])
                   /\ i <= Len(s) => ~IsSpace(s[i])
      upto(s) == CHOOSE i \in 0..Len(s) :
                   /\ \A j \in i + 1..Len(s) : IsSpace(s[j])
                   /\ i >= 1 => ~IsSpace(s[i])
  IN  Val({SubSeq(s, from(s), upto(s)) : s \in {str}})

(***************************************************************************)
(* JSON values as json.load returns them: a string, None, or a key that    *)
(* the object does not have.                                               *)
(***************************************************************************)
JStr(s) == [t |-> "str", s |-> s]
JNull == [t |-> "null", s |-> <<>>]
JAbsent == [t |-> "absent", s |-> <<>>]

\* dict.get(key, default)
Get(v, default) == IF v.t = "absent" THEN default ELSE v
\* dict.get(key)
GetNone(v) == Get(v, JNull)
\* the truth value Python gives a str or None
Truthy(v) == v.t = "str" /\ v.s # <<>>
\* str(v)
PyStr(v) == IF v.t = "null" THEN <<"N", "o", "n", "e">> ELSE v.s

(***************************************************************************)
(* _time_ok and _in_range: datetime.strptime(s, "%H:%M").                  *)
(* %H is the regex 2[0-3]|[0-1]\d|\d, %M is [0-5]\d|\d, and the whole      *)
(* string must be consumed.                                                *)
(***************************************************************************)
AllDigits(s) == \A i \in 1..Len(s) : s[i] \in Digits

NumVal(s) == IF Len(s) = 1 THEN DigitVal(s[1]) ELSE 10 * DigitVal(s[1]) + DigitVal(s[2])

IsField(s, max) == Len(s) \in {1, 2} /\ AllDigits(s) /\ NumVal(s) <= max

ColonAt(s) == {i \in 1..Len(s) : s[i] = ":"}

\* the minutes after midnight strptime yields, or -1 when it raises ValueError
ParseTime(str) ==
  LET split(s) == {i \in ColonAt(s) : /\ IsField(SubSeq(s, 1, i - 1), 23)
                                      /\ IsField(SubSeq(s, i + 1, Len(s)), 59)}
      mins(s, i) == 60 * NumVal(SubSeq(s, 1, i - 1)) + NumVal(SubSeq(s, i + 1, Len(s)))
      parse(s) == Val({IF c = {} THEN -1 ELSE mins(s, Val(c)) : c \in {split(s)}})
  IN  Val({parse(s) : s \in {str}})

\* _time_ok on a JSON value: strptime raises on None too, and the except returns False
TimeOk(v) == v.t = "str" /\ ParseTime(v.s) >= 0

\* a bug: the end of the range left out (t < tf)
InRangeOpenEnd(hora, inicio, fin) ==
  /\ ParseTime(hora) >= ParseTime(inicio)
  /\ ParseTime(hora) < ParseTime(fin)

\* lines 27-30: (t >= ti) and (t <= tf) on the three parsed times
InRange(hora, inicio, fin) ==
  /\ ParseTime(hora) >= ParseTime(inicio)
  /\ ParseTime(hora) <= ParseTime(fin)

(***************************************************************************)
(* The strings the model draws inputs and documents from.                  *)
(***************************************************************************)
T0800 == <<"0", "8", ":", "0", "0">>
T0900 == <<"0", "9", ":", "0", "0">>
T1200 == <<"1", "2", ":", "0", "0">>
T1300 == <<"1", "3", ":", "0", "0">>
TBad == <<"9", "h">>
T0759 == <<"0", "7", ":", "5", "9">>
T1201 == <<"1", "2", ":", "0", "1">>
T2400 == <<"2", "4", ":", "0", "0">>
T0960 == <<"0", "9", ":", "6", "0">>
\* one-digit hour and minute
T9c5 == <<"9", ":", "5">>
\* no colon
T0900NoColon == <<"0", "9", "0", "0">>
\* a blank before the time
T0900Blank == <<" ", "0", "9", ":", "0", "0">>

NameR == <<"r">>
NameS == <<"s">>
Ubic == <<"u">>
EspO == <<"O">>
EspN == <<"n">>
PacZ == <<"z">>

(***************************************************************************)
(* A room record of the "consultorios" list.                               *)
(***************************************************************************)
Hor(ini, fin) == [t |-> "obj", inicio |-> ini, fin |-> fin]
NoHor == [t |-> "absent", inicio |-> JAbsent, fin |-> JAbsent]
Esp(n) == [t |-> "obj", nombre |-> n]
NoEsp == [t |-> "absent", nombre |-> JAbsent]

Room(n, e, h, pac) ==
  [nombre |-> JStr(n), especialidad |-> e, ubicacion |-> JStr(Ubic),
   horario |-> h, paciente |-> pac]

HorOk == Hor(JStr(T0800), JStr(T1200))

RoomFree(n, e) == Room(n, Esp(JStr(e)), HorOk, JStr(<<>>))
RoomTaken(n, e) == Room(n, Esp(JStr(e)), HorOk, JStr(PacZ))

\* well-formed room records, free and occupied
RoomsPlain ==
  {RoomFree(NameR, EspO), RoomTaken(NameR, EspO),
   RoomFree(NameS, EspN), RoomTaken(NameS, EspN)}

\* the records a hand-written document may also hold: other encodings of "no
\* occupant", a record without specialty and occupant, and a missing, an
\* inverted and an unparseable schedule
RoomsOdd ==
  { Room(NameR, Esp(JStr(EspO)), HorOk, JNull),
    Room(NameR, Esp(JStr(EspO)), HorOk, JStr(<<" ">>)),
    Room(NameR, NoEsp, HorOk, JAbsent),
    Room(NameR, Esp(JStr(EspO)), NoHor, JStr(<<>>)),
    Room(NameR, Esp(JStr(EspO)), Hor(JStr(T1200), JStr(T0800)), JStr(<<>>)),
    Room(NameR, Esp(JStr(EspO)), Hor(JStr(TBad), JStr(T1200)), JStr(<<>>)),
    Room(NameR, Esp(JStr(EspO)), Hor(JStr(TBad), JStr(T1200)), JStr(PacZ)) }

\* the content at a path: no file, a file json.load cannot parse, an object
\* without the "consultorios" key, or an object with the list of rooms.
\* chunks is how much of the serialized text is there.
FileOf(kind, rooms) == [kind |-> kind, rooms |-> rooms, chunks |-> DumpChunks]

\* the lists of up to MaxRooms rooms drawn from S
Lists(S) == UNION {[1..k -> S] : k \in 0..MaxRooms}

DocsOver(S) ==
  {FileOf("doc", rs) : rs \in Lists(S)}
    \cup {FileOf("missing", <<>>), FileOf("garbage", <<>>), FileOf("nokey", <<>>)}

\* json.load succeeds and the result has .get
Parseable(f) == f.kind \in {"nokey", "doc"} /\ f.chunks = DumpChunks

(***************************************************************************)
(* reservar_consultorio, lines 183-240: the checks, in the code's order.   *)
(***************************************************************************)
\* lines 200-203: the first room whose name matches, 0 when there is none
NameMatches(room, sel) ==
  /\ Truthy(sel)
  /\ Lower(Strip(PyStr(Get(room.nombre, JStr(<<>>))))) = Lower(Strip(sel.s))

\* a change of design, not the code's: the first matching room that is free,
\* when there is one
FindFreeRoom(rooms, sel) ==
  LET hits == {i \in 1..Len(rooms) : NameMatches(rooms[i], sel)}
      free == {i \in hits : Strip(PyStr(Get(rooms[i].paciente, JStr(<<>>)))) = <<>>}
  IN  IF hits = {} THEN 0
      ELSE IF free = {} THEN CHOOSE i \in hits : \A j \in hits : i <= j
      ELSE CHOOSE i \in free : \A j \in free : i <= j

FindRoom(rooms, sel) ==
  LET hits == {i \in 1..Len(rooms) : NameMatches(rooms[i], sel)}
  IN  IF hits = {} THEN 0 ELSE CHOOSE i \in hits : \A j \in hits : i <= j

\* lines 210-212: sel.get("horario", {}).get("inicio") and .get("fin")
HIni(room) == IF room.horario.t = "absent" THEN JNull ELSE GetNone(room.horario.inicio)
HFin(room) == IF room.horario.t = "absent" THEN JNull ELSE GetNone(room.horario.fin)

\* line 214
ScheduleOk(room) ==
  /\ Truthy(HIni(room)) /\ Truthy(HFin(room))
  /\ TimeOk(HIni(room)) /\ TimeOk(HFin(room))

\* line 218
InHours(room, hora) == InRange(hora, HIni(room).s, HFin(room).s)

\* a bug: the occupancy check of lines 228-237 left out
OccupiedNoCheck(room) == FALSE

\* line 229
Occupied(room) == Strip(PyStr(Get(room.paciente, JStr(<<>>)))) # <<>>

\* line 186
NameGiven(pac) == pac # <<>> /\ Strip(pac) # <<>>

\* line 188
HoraOk(hora) == hora # <<>> /\ TimeOk(JStr(hora))

\* line 195: data.get("consultorios", [])
Consultorios(f) == IF f.kind = "doc" THEN f.rooms ELSE <<>>

\* a bug: the occupancy check made before the schedule and hours checks
ChecksOccupiedFirst(f, pac, hora, sel) ==
  LET rooms == Consultorios(f)
      i == FindRoom(rooms, sel)
  IN  IF f.kind = "missing" THEN [kind |-> "nofile", idx |-> 0]
      ELSE IF ~NameGiven(pac) THEN [kind |-> "noname", idx |-> 0]
      ELSE IF ~HoraOk(hora) THEN [kind |-> "badtime", idx |-> 0]
      ELSE IF ~Parseable(f) THEN [kind |-> "unreadable", idx |-> 0]
      ELSE IF i = 0 THEN [kind |-> "notfound", idx |-> 0]
      ELSE IF Occupied(rooms[i]) THEN [kind |-> "occupied", idx |-> i]
      ELSE IF ~ScheduleOk(rooms[i]) THEN [kind |-> "badschedule", idx |-> i]
      ELSE IF ~InHours(rooms[i], hora) THEN [kind |-> "outofhours", idx |-> i]
      ELSE [kind |-> "pass", idx |-> i]

\* The outcome of lines 183-237 on file content f: the kind of the early
\* return ("pass" when none is taken) and the room resolved, if any.
Checks(f, pac, hora, sel) ==
  LET rooms == Consultorios(f)
      i == FindRoom(rooms, sel)
  IN  IF f.kind = "missing" THEN [kind |-> "nofile", idx |-> 0]
      ELSE IF ~NameGiven(pac) THEN [kind |-> "noname", idx |-> 0]
      ELSE IF ~HoraOk(hora) THEN [kind |-> "badtime", idx |-> 0]
      ELSE IF ~Parseable(f) THEN [kind |-> "unreadable", idx |-> 0]
      ELSE IF i = 0 THEN [kind |-> "notfound", idx |-> 0]
      ELSE IF ~ScheduleOk(rooms[i]) THEN [kind |-> "badschedule", idx |-> i]
      ELSE IF ~InHours(rooms[i], hora) THEN [kind |-> "outofhours", idx |-> i]
      ELSE IF Occupied(rooms[i]) THEN [kind |-> "occupied", idx |-> i]
      ELSE [kind |-> "pass", idx |-> i]

\* a bug: the name stored as given, without strip()
MarkRaw(rooms, i, pac) == [rooms EXCEPT ![i].paciente = JStr(pac)]

\* a bug: every room with the resolved room's name is marked
MarkByName(rooms, i, pac) ==
  [j \in 1..Len(rooms) |->
     IF rooms[j].nombre = rooms[i].nombre
       THEN [rooms[j] EXCEPT !.paciente = JStr(Strip(pac))]
       ELSE rooms[j]]

\* line 240: sel["paciente"] = paciente_nombre.strip()
Mark(rooms, i, pac) == [rooms EXCEPT ![i].paciente = JStr(Strip(pac))]

(***************************************************************************)
(* get_consultorios_disponibles, lines 97-147.                             *)
(***************************************************************************)
\* line 111: c.get("paciente") is falsy
ListedFree(room) == ~Truthy(GetNone(room.paciente))

\* lines 115-118: c.get("especialidad", {}).get("nombre", "") against the filter
EspNombre(room) ==
  IF room.especialidad.t = "absent" THEN JStr(<<>>)
  ELSE Get(room.especialidad.nombre, JStr(<<>>))

EspMatches(room, filtro) ==
  Truthy(filtro) => Lower(Strip(PyStr(EspNombre(room)))) = Lower(Strip(filtro.s))

\* lines 108-121: the indexes of the rooms kept, in list order
Disponibles(rooms, filtro) ==
  SelectSeq([i \in 1..Len(rooms) |-> i],
            LAMBDA i : ListedFree(rooms[i]) /\ EspMatches(rooms[i], filtro))

\* line 139: c['horario']['inicio'] and c['horario']['fin'] raise KeyError
HorarioKeys(room) ==
  /\ room.horario.t # "absent"
  /\ room.horario.inicio.t # "absent"
  /\ room.horario.fin.t # "absent"

\* the kind of the value returned, "fault" when an exception leaves the function
Listing(f, filtro) ==
  LET d == Disponibles(Consultorios(f), filtro)
  IN  IF f.kind = "missing" THEN [kind |-> "nofile", listed |-> <<>>]
      ELSE IF ~Parseable(f) THEN [kind |-> "unreadable", listed |-> <<>>]
      ELSE IF d = <<>> THEN [kind |-> "none", listed |-> <<>>]
      ELSE IF \E k \in 1..Len(d) : ~HorarioKeys(f.rooms[d[k]])
             THEN [kind |-> "fault", listed |-> <<>>]
      ELSE [kind |-> "listing", listed |-> d]

(***************************************************************************)
(* get_especialidades, lines 71-85, on the content of the catalog file.    *)
(***************************************************************************)
CatalogKinds == {"missing", "garbage", "nokey", "doc"}

Especialidades(cat) ==
  IF cat = "missing" THEN "nofile"
  ELSE IF cat = "garbage" THEN "unreadable"
  ELSE "catalog"

(***************************************************************************)
(* State.                                                                  *)
(***************************************************************************)
VARIABLES
  file,        \* the content at CONSULTORIOS_FILE
  pc,          \* where each process is in its call
  call,        \* the arguments of each process's current or last call
  data,        \* reservar_consultorio's consultorios list, after line 240
  tmp,         \* the temporary file of the call's _atomic_write
  res,         \* the value the last call returned
  file0,       \* history: the content of the file at the start
  fileAtCall,  \* history: the content of the file when the call began
  wrote,       \* history: the call's os.replace was done
  lastWriter,  \* history: the process of the last os.replace
  stored       \* how much of the target's and of each temporary file's
               \* content has reached the storage device

vars == <<file, pc, call, data, tmp, res, file0, fileAtCall, wrote, lastWriter,
          stored>>

\* the files whose content is written: the target and each call's temporary file
Files == Procs \cup {"target"}

InFlight == {"mkstemp", "dump", "replace", "except"}

NoCall == [op |-> "none", pac |-> <<>>, hora |-> <<>>, sel |-> JNull, filtro |-> JNull]
NoTmp == [exists |-> FALSE, chunks |-> 0, rmfail |-> FALSE]
NoRes == [op |-> "none", ok |-> FALSE, kind |-> "none", idx |-> 0,
          actual |-> JNull, listed |-> <<>>]

Result(op, ok, kind, idx, actual, listed) ==
  [op |-> op, ok |-> ok, kind |-> kind, idx |-> idx, actual |-> actual,
   listed |-> listed]

InitWith(docs) ==
  /\ file \in docs
  /\ file0 = file
  /\ pc = [p \in Procs |-> "idle"]
  /\ call = [p \in Procs |-> NoCall]
  /\ data = [p \in Procs |-> <<>>]
  /\ tmp = [p \in Procs |-> NoTmp]
  /\ res = [p \in Procs |-> NoRes]
  /\ fileAtCall = [p \in Procs |-> file]
  /\ wrote = [p \in Procs |-> FALSE]
  /\ lastWriter = "none"
  /\ stored = [f \in Files |-> IF f = "target" THEN DumpChunks ELSE 0]

CanCall(p) == pc[p] = "idle"

Begin(p, c) ==
  /\ call' = [call EXCEPT ![p] = c]
  /\ fileAtCall' = [fileAtCall EXCEPT ![p] = file]
  /\ wrote' = [wrote EXCEPT ![p] = FALSE]
  /\ tmp' = [tmp EXCEPT ![p] = NoTmp]

(***************************************************************************)
(* reservar_consultorio up to the call of _atomic_write (lines 183-244):   *)
(* an early return, or the list with the room marked.                      *)
(***************************************************************************)
\* a bug: the list is saved on the way out of every return
EarlyReturnSaves(p, rooms, v) ==
  /\ pc' = [pc EXCEPT ![p] = "done"]
  /\ data' = [data EXCEPT ![p] = <<>>]
  /\ res' = [res EXCEPT ![p] =
       Result("reservar", FALSE, v.kind, v.idx,
              IF v.kind = "occupied" THEN GetNone(rooms[v.idx].paciente) ELSE JNull,
              <<>>)]
  /\ file' = [kind |-> "doc", rooms |-> rooms, chunks |-> DumpChunks]

\* lines 185-237: a return before line 240; nothing is written
EarlyReturn(p, rooms, v) ==
  /\ pc' = [pc EXCEPT ![p] = "done"]
  /\ data' = [data EXCEPT ![p] = <<>>]
  /\ res' = [res EXCEPT ![p] =
       Result("reservar", FALSE, v.kind, v.idx,
              IF v.kind = "occupied" THEN GetNone(rooms[v.idx].paciente) ELSE JNull,
              <<>>)]
  /\ UNCHANGED file

\* lines 239-245: the room is marked in memory and _atomic_write is entered
Proceed(p, rooms, v, pac) ==
  /\ pc' = [pc EXCEPT ![p] = "mkstemp"]
  /\ data' = [data EXCEPT ![p] = Mark(rooms, v.idx, pac)]
  /\ res' = [res EXCEPT ![p] = NoRes]
  /\ UNCHANGED file

ReservarConsultorio(p, pacs, horas, sels) ==
  /\ CanCall(p)
  /\ \E pac \in pacs, hora \in horas, sel \in sels :
       LET v == Checks(file, pac, hora, sel)
           rooms == Consultorios(file)
       IN  /\ Begin(p, [op |-> "reservar", pac |-> pac, hora |-> hora,
                        sel |-> sel, filtro |-> JNull])
           /\ IF v.kind = "pass"
                THEN Proceed(p, rooms, v, pac)
                ELSE EarlyReturn(p, rooms, v)
  /\ UNCHANGED <<file0, lastWriter, stored>>

(***************************************************************************)
(* _atomic_write, lines 32-45, step by step.                               *)
(***************************************************************************)
\* line 35: tempfile.mkstemp creates an empty file
Mkstemp(p) ==
  /\ pc[p] = "mkstemp"
  /\ tmp' = [tmp EXCEPT ![p] = [exists |-> TRUE, chunks |-> 0, rmfail |-> FALSE]]
  /\ pc' = [pc EXCEPT ![p] = "dump"]
  /\ stored' = [stored EXCEPT ![p] = 0]
  /\ UNCHANGED <<file, call, data, res, file0, fileAtCall, wrote, lastWriter>>

\* line 246: the exception raised by _atomic_write becomes the failure returned
IOFailure(p) == Result("reservar", FALSE, "ioerror", FindRoom(fileAtCall[p].rooms, call[p].sel),
                       JNull, <<>>)

\* line 35 raises (outside the try: nothing to remove)
MkstempFails(p) ==
  /\ pc[p] = "mkstemp"
  /\ pc' = [pc EXCEPT ![p] = "done"]
  /\ res' = [res EXCEPT ![p] = IOFailure(p)]
  /\ UNCHANGED <<file, call, data, tmp, file0, fileAtCall, wrote, lastWriter, stored>>

\* lines 37-38: json.dump writes the next piece; leaving the with block closes the file
Dump(p) ==
  /\ pc[p] = "dump"
  /\ tmp[p].chunks < DumpChunks
  /\ tmp' = [tmp EXCEPT ![p].chunks = @ + 1]
  /\ pc' = [pc EXCEPT ![p] = IF tmp[p].chunks + 1 = DumpChunks THEN "replace" ELSE "dump"]
  /\ UNCHANGED <<file, call, data, res, file0, fileAtCall, wrote, lastWriter, stored>>

\* lines 37-38 raise: control goes to the except clause of line 40
DumpFails(p) ==
  /\ pc[p] = "dump"
  /\ pc' = [pc EXCEPT ![p] = "except"]
  /\ UNCHANGED <<file, call, data, tmp, res, file0, fileAtCall, wrote, lastWriter, stored>>

\* a change of design, not the code's: a commit that finds its room taken
\* in the file keeps the file
ReplacedKeepsTaken(p) ==
  LET i == FindRoom(data[p], call[p].sel)
  IN  IF file.kind = "doc" /\ i <= Len(file.rooms) /\ Occupied(file.rooms[i])
        THEN file
        ELSE [kind |-> "doc", rooms |-> data[p], chunks |-> tmp[p].chunks]

\* a change of design, not the code's: the commit writes its one room into
\* the list that is in the file at that moment
ReplacedMerged(p) ==
  LET i == FindRoom(data[p], call[p].sel)
  IN  IF file.kind = "doc" /\ i >= 1 /\ i <= Len(file.rooms)
        THEN [kind |-> "doc",
              rooms |-> [file.rooms EXCEPT ![i].paciente = data[p][i].paciente],
              chunks |-> tmp[p].chunks]
        ELSE [kind |-> "doc", rooms |-> data[p], chunks |-> tmp[p].chunks]

\* the content os.replace puts at the target: the temporary file's
Replaced(p) == [kind |-> "doc", rooms |-> data[p], chunks |-> tmp[p].chunks]

\* a bug: the replace done while json.dump is still writing
ReplaceEarly(p) ==
  /\ pc[p] \in {"dump", "replace"}
  /\ file' = [kind |-> "doc", rooms |-> data[p], chunks |-> tmp[p].chunks]
  /\ tmp' = [tmp EXCEPT ![p].exists = FALSE]
  /\ wrote' = [wrote EXCEPT ![p] = TRUE]
  /\ lastWriter' = p
  /\ pc' = [pc EXCEPT ![p] = "done"]
  /\ res' = [res EXCEPT ![p] =
       Result("reservar", TRUE, "reserved",
              FindRoom(fileAtCall[p].rooms, call[p].sel), JNull, <<>>)]
  /\ stored' = [stored EXCEPT !["target"] = stored[p], ![p] = 0]
  /\ UNCHANGED <<call, data, file0, fileAtCall>>

\* line 39: os.replace(tmp, path), then lines 250-265
Replace(p) ==
  /\ pc[p] = "replace"
  /\ file' = Replaced(p)
  /\ tmp' = [tmp EXCEPT ![p].exists = FALSE]
  /\ wrote' = [wrote EXCEPT ![p] = TRUE]
  /\ lastWriter' = p
  /\ pc' = [pc EXCEPT ![p] = "done"]
  /\ res' = [res EXCEPT ![p] =
       Result("reservar", TRUE, "reserved",
              FindRoom(fileAtCall[p].rooms, call[p].sel), JNull, <<>>)]
  /\ stored' = [stored EXCEPT !["target"] = stored[p], ![p] = 0]
  /\ UNCHANGED <<call, data, file0, fileAtCall>>

\* line 39 raises
ReplaceFails(p) ==
  /\ pc[p] = "replace"
  /\ pc' = [pc EXCEPT ![p] = "except"]
  /\ UNCHANGED <<file, call, data, tmp, res, file0, fileAtCall, wrote, lastWriter, stored>>

\* a bug: the except clause re-raises without removing the temporary file
CleanupKeeps(p) ==
  /\ pc[p] = "except"
  /\ pc' = [pc EXCEPT ![p] = "done"]
  /\ res' = [res EXCEPT ![p] =
       Result("reservar", FALSE, "ioerror",
              FindRoom(fileAtCall[p].rooms, call[p].sel), JNull, <<>>)]
  /\ UNCHANGED <<file, call, data, tmp, file0, fileAtCall, wrote, lastWriter, stored>>

\* lines 40-45: os.remove(tmp), then raise
Cleanup(p) ==
  /\ pc[p] = "except"
  /\ tmp' = [tmp EXCEPT ![p].exists = FALSE]
  /\ pc' = [pc EXCEPT ![p] = "done"]
  /\ res' = [res EXCEPT ![p] = IOFailure(p)]
  /\ UNCHANGED <<file, call, data, file0, fileAtCall, wrote, lastWriter, stored>>

\* lines 41-45: os.remove raises too, which line 43 swallows; then raise
CleanupFails(p) ==
  /\ pc[p] = "except"
  /\ tmp' = [tmp EXCEPT ![p].rmfail = TRUE]
  /\ pc' = [pc EXCEPT ![p] = "done"]
  /\ res' = [res EXCEPT ![p] = IOFailure(p)]
  /\ UNCHANGED <<file, call, data, file0, fileAtCall, wrote, lastWriter, stored>>

\* the process stops in the middle of a call
Crash(p) ==
  /\ pc[p] \in InFlight
  /\ pc' = [pc EXCEPT ![p] = "crashed"]
  /\ UNCHANGED <<file, call, data, tmp, res, file0, fileAtCall, wrote, lastWriter, stored>>

(***************************************************************************)
(* Storage. _atomic_write never calls f.flush() with os.fsync(): leaving   *)
(* the with block of lines 37-38 hands the text to the operating system,   *)
(* which writes it to the device when it chooses. When the machine stops,  *)
(* a file keeps what had reached the device.                               *)
(***************************************************************************)
\* how much of the content of file f there is to write to the device
Written(f) == IF f = "target" THEN file.chunks ELSE tmp[f].chunks

\* the operating system writes the next piece of a file to the device
Writeback(f) ==
  /\ f \in Procs => tmp[f].exists
  /\ stored[f] < Written(f)
  /\ stored' = [stored EXCEPT ![f] = @ + 1]
  /\ UNCHANGED <<file, pc, call, data, tmp, res, file0, fileAtCall, wrote, lastWriter>>

\* the machine stops (power loss, kernel panic): every call ends there and
\* each file is left with what the device holds
PowerLoss ==
  /\ \E p \in Procs : pc[p] # "off"
  /\ pc' = [p \in Procs |-> "off"]
  /\ file' = [file EXCEPT !.chunks = stored["target"]]
  /\ tmp' = [p \in Procs |->
              IF tmp[p].exists THEN [tmp[p] EXCEPT !.chunks = stored[p]] ELSE tmp[p]]
  /\ UNCHANGED <<call, data, res, file0, fileAtCall, wrote, lastWriter, stored>>

(***************************************************************************)
(* The two read-only tools, each one read of its file.                     *)
(***************************************************************************)
GetConsultoriosDisponibles(p, filtros) ==
  /\ CanCall(p)
  /\ \E filtro \in filtros :
       LET l == Listing(file, filtro)
       IN  /\ Begin(p, [op |-> "disponibles", pac |-> <<>>, hora |-> <<>>,
                        sel |-> JNull, filtro |-> filtro])
           /\ res' = [res EXCEPT ![p] =
                Result("disponibles", l.kind \in {"none", "listing"}, l.kind, 0,
                       JNull, l.listed)]
  /\ pc' = [pc EXCEPT ![p] = "done"]
  /\ data' = [data EXCEPT ![p] = <<>>]
  /\ UNCHANGED <<file, file0, lastWriter, stored>>

GetEspecialidades(p) ==
  /\ CanCall(p)
  /\ \E cat \in CatalogKinds :
       LET k == Especialidades(cat)
       IN  res' = [res EXCEPT ![p] =
             Result("especialidades", k = "catalog", k, 0, JNull, <<>>)]
  /\ Begin(p, [NoCall EXCEPT !.op = "especialidades"])
  /\ pc' = [pc EXCEPT ![p] = "done"]
  /\ data' = [data EXCEPT ![p] = <<>>]
  /\ UNCHANGED <<file, file0, lastWriter, stored>>

\* the value returned reaches the caller, who may call again
Return(p) ==
  /\ pc[p] = "done"
  /\ pc' = [pc EXCEPT ![p] = "idle"]
  /\ call' = [call EXCEPT ![p] = NoCall]
  /\ data' = [data EXCEPT ![p] = <<>>]
  /\ tmp' = [tmp EXCEPT ![p] = NoTmp]
  /\ res' = [res EXCEPT ![p] = NoRes]
  /\ fileAtCall' = [fileAtCall EXCEPT ![p] = file]
  /\ wrote' = [wrote EXCEPT ![p] = FALSE]
  /\ UNCHANGED <<file, file0, lastWriter, stored>>

(***************************************************************************)
(* Spec: two processes, one call each, overlapping in any way.             *)
(***************************************************************************)
PacA == <<"a">>
PacB == <<" ", "b", " ">>
SelR == JStr(<<"R", " ">>)
SelS == JStr(NameS)

ConcRooms == {RoomFree(NameR, EspO), RoomFree(NameS, EspN)}
ConcPacs == {PacA, PacB}
ConcHoras == {T0900}
ConcSels == {SelR, SelS}
ConcFiltros == {JNull, JStr(EspO)}

Init == InitWith(DocsOver(ConcRooms))

Next ==
  \E p \in Procs :
    \/ ReservarConsultorio(p, ConcPacs, ConcHoras, ConcSels)
    \/ Mkstemp(p)
    \/ MkstempFails(p)
    \/ Dump(p)
    \/ DumpFails(p)
    \/ Replace(p)
    \/ ReplaceFails(p)
    \/ Cleanup(p)
    \/ CleanupFails(p)
    \/ Crash(p)
    \/ GetConsultoriosDisponibles(p, ConcFiltros)
    \/ GetEspecialidades(p)

Spec == Init /\ [][Next]_vars

(***************************************************************************)
(* SeqSpec: calls that do not overlap: one process makes call after call,  *)
(* over every document and argument of the model.                          *)
(***************************************************************************)
Server == "p1"

SeqPacs == {<<>>, <<" ">>, PacA, PacB}
SeqHoras == {T0900, T1300, TBad}
SeqSels == {JNull, SelR, SelS, JStr(<<"x">>)}
SeqFiltros == {JNull, JStr(<<"o", " ">>), JStr(<<"x">>)}

SeqInit == InitWith(DocsOver(RoomsPlain \cup RoomsOdd))

SeqNext ==
  \/ ReservarConsultorio(Server, SeqPacs, SeqHoras, SeqSels)
  \/ Mkstemp(Server)
  \/ MkstempFails(Server)
  \/ Dump(Server)
  \/ DumpFails(Server)
  \/ Replace(Server)
  \/ ReplaceFails(Server)
  \/ Cleanup(Server)
  \/ CleanupFails(Server)
  \/ Crash(Server)
  \/ GetConsultoriosDisponibles(Server, SeqFiltros)
  \/ GetEspecialidades(Server)
  \/ Return(Server)

SeqSpec == SeqInit /\ [][SeqNext]_vars

(***************************************************************************)
(* TimeSpec: the calls of SeqSpec with the time argument drawn from the    *)
(* bounds of a room's hours, the minutes next to them, and strings that    *)
(* are near the form HH:MM.                                                *)
(***************************************************************************)
TimeHoras ==
  {T0759, T0800, T0900, T1200, T1201, T1300,
   T2400, T0960, T9c5, T0900NoColon, T0900Blank, TBad, <<>>}

TimeRooms ==
  {RoomFree(NameR, EspO), RoomTaken(NameR, EspO),
   Room(NameR, Esp(JStr(EspO)), Hor(JStr(T1200), JStr(T0800)), JStr(<<>>))}

TimePacs == {<<>>, PacA}
TimeSels == {SelR}

TimeInit == InitWith(DocsOver(TimeRooms))

TimeNext ==
  \/ ReservarConsultorio(Server, TimePacs, TimeHoras, TimeSels)
  \/ Mkstemp(Server)
  \/ MkstempFails(Server)
  \/ Dump(Server)
  \/ DumpFails(Server)
  \/ Replace(Server)
  \/ ReplaceFails(Server)
  \/ Cleanup(Server)
  \/ CleanupFails(Server)
  \/ Crash(Server)
  \/ Return(Server)

TimeSpec == TimeInit /\ [][TimeNext]_vars

(***************************************************************************)
(* FindSpec: the calls of SeqSpec over datasets with rooms of the same     *)
(* name, names that differ in case or in surrounding blanks, and every     *)
(* kind of selector.                                                       *)
(***************************************************************************)
FindSels ==
  {JNull, JStr(<<>>), JStr(<<" ">>), JStr(NameR), SelR, SelS, JStr(<<"x">>)}

FindRooms ==
  {RoomFree(NameR, EspO), RoomTaken(NameR, EspO), RoomFree(NameS, EspN),
   RoomFree(<<"R">>, EspO), RoomFree(<<" ", "r">>, EspO)}

FindPacs == {<<>>, PacA}
FindHoras == {T0900, TBad}

FindInit == InitWith(DocsOver(FindRooms))

FindNext ==
  \/ ReservarConsultorio(Server, FindPacs, FindHoras, FindSels)
  \/ Mkstemp(Server)
  \/ MkstempFails(Server)
  \/ Dump(Server)
  \/ DumpFails(Server)
  \/ Replace(Server)
  \/ ReplaceFails(Server)
  \/ Cleanup(Server)
  \/ CleanupFails(Server)
  \/ Crash(Server)
  \/ Return(Server)

FindSpec == FindInit /\ [][FindNext]_vars

(***************************************************************************)
(* DurSpec: the calls of one process on a machine that may stop at any     *)
(* point, with the operating system writing files to the device on its own *)
(* schedule.                                                               *)
(***************************************************************************)
DurFiles == {Server, "target"}

DurInit == InitWith(DocsOver(ConcRooms))

DurNext ==
  \/ ReservarConsultorio(Server, ConcPacs, ConcHoras, ConcSels)
  \/ Mkstemp(Server)
  \/ MkstempFails(Server)
  \/ Dump(Server)
  \/ DumpFails(Server)
  \/ Replace(Server)
  \/ ReplaceFails(Server)
  \/ Cleanup(Server)
  \/ CleanupFails(Server)
  \/ Crash(Server)
  \/ Return(Server)
  \/ \E f \in DurFiles : Writeback(f)
  \/ PowerLoss

DurSpec == DurInit /\ [][DurNext]_vars

(***************************************************************************)
(* What the claims say, in the terms of the specification: the conditions  *)
(* of a reservation, read off its arguments and the file as it was when    *)
(* the call began.                                                         *)
(***************************************************************************)
ValidationFailures ==
  {"noname", "badtime", "notfound", "badschedule", "outofhours", "occupied"}

DoneReserva(p) == pc[p] = "done" /\ res[p].op = "reservar"

\* a patient name is recorded
NonEmpty(v) == v.t = "str" /\ Strip(v.s) # <<>>

\* the room the call resolves to, 0 when none
Target(p) == FindRoom(Consultorios(fileAtCall[p]), call[p].sel)

TimesParse(h) ==
  /\ h.t = "obj" /\ h.inicio.t = "str" /\ h.fin.t = "str"
  /\ ParseTime(h.inicio.s) >= 0 /\ ParseTime(h.fin.s) >= 0

FactsOf(c, i, rooms) ==
  [ name     |-> Strip(c.pac) # <<>>,
    time     |-> ParseTime(c.hora) >= 0,
    target   |-> i,
    sched    |-> i > 0 /\ TimesParse(rooms[i].horario),
    within   |-> /\ i > 0 /\ TimesParse(rooms[i].horario)
                 /\ ParseTime(rooms[i].horario.inicio.s) <= ParseTime(c.hora)
                 /\ ParseTime(c.hora) <= ParseTime(rooms[i].horario.fin.s),
    inverted |-> /\ i > 0 /\ TimesParse(rooms[i].horario)
                 /\ ParseTime(rooms[i].horario.inicio.s)
                      > ParseTime(rooms[i].horario.fin.s),
    taken    |-> i > 0 /\ NonEmpty(rooms[i].paciente),
    occupant |-> IF i > 0 THEN rooms[i].paciente ELSE JAbsent ]

\* the conditions of p's reservation
Facts(p) == Val({FactsOf(call[p], i, fileAtCall[p].rooms) : i \in {Target(p)}})

(***************************************************************************)
(* C1. A reservation that fails at a validation step (blank patient name,  *)
(* unparseable time, no matching room, unparseable schedule, time outside  *)
(* the hours, room occupied) leaves the dataset file as it was when the    *)
(* call began, and performs no commit: no temporary file is created and no *)
(* replace is done.                                                        *)
(***************************************************************************)
FailureWritesNothing ==
  \A p \in Procs :
    (DoneReserva(p) /\ res[p].kind \in ValidationFailures)
      => /\ file = fileAtCall[p]
         /\ ~wrote[p]
         /\ ~tmp[p].exists
         /\ ~res[p].ok

\* a call failed validation after an earlier call had changed the file
FailureAfterSuccess ==
  \E p \in Procs :
    /\ DoneReserva(p) /\ res[p].kind \in ValidationFailures
    /\ file # file0

(***************************************************************************)
(* C2. In a non-overlapping execution a reservation returns ok = true if   *)
(* and only if the patient name is non-empty after trimming, the time      *)
(* parses, a room matches the selector, the room's start and end parse,    *)
(* start <= time <= end, the room has no occupant, and the commit          *)
(* succeeds; and then the file records the trimmed patient name as the     *)
(* occupant of the resolved room.                                          *)
(***************************************************************************)
ReserveOkIff ==
  \A p \in Procs :
    DoneReserva(p) =>
      \A k \in {Facts(p)} :
        /\ res[p].ok <=>
             /\ k.name /\ k.time /\ k.target > 0 /\ k.sched /\ k.within
             /\ ~k.taken
             /\ wrote[p]
        /\ res[p].ok =>
             /\ file.kind = "doc"
             /\ file.rooms[k.target].paciente = JStr(Strip(call[p].pac))

\* a name given with surrounding blanks was reserved
ReservedTrimmed ==
  \E p \in Procs :
    /\ DoneReserva(p) /\ res[p].ok
    /\ call[p].pac = PacB
    /\ file.rooms[res[p].idx].paciente = JStr(<<"b">>)

(***************************************************************************)
(* C3. In a sequence of non-overlapping calls, a room whose occupant is    *)
(* non-empty keeps that occupant for ever (a change of the file only ever  *)
(* fills a room that had no occupant), and every later reservation that    *)
(* resolves to it with a valid name and a time inside its hours fails as   *)
(* already occupied, naming the occupant.                                  *)
(***************************************************************************)
OccupantStays ==
  \A i \in 1..Len(file.rooms) :
    NonEmpty(file.rooms[i].paciente) =>
      /\ i <= Len(file'.rooms)
      /\ file'.rooms[i].paciente = file.rooms[i].paciente

FillsFreeRoom ==
  file' # file =>
    \E i \in 1..Len(file.rooms) :
      /\ ~NonEmpty(file.rooms[i].paciente)
      /\ NonEmpty(file'.rooms[i].paciente)

LaterReserveRefused ==
  \A p \in Procs :
    DoneReserva(p) =>
      \A k \in {Facts(p)} :
        (k.name /\ k.time /\ k.target > 0 /\ k.sched /\ k.within /\ k.taken)
          => /\ res[p].kind = "occupied"
             /\ res[p].actual = k.occupant

OccupiedForGood ==
  [][OccupantStays /\ FillsFreeRoom /\ LaterReserveRefused']_vars

\* a room that was free at the start was reserved, and a later reservation
\* of it was refused naming the patient who holds it
RefusedAfterReserve ==
  \E p \in Procs :
    /\ DoneReserva(p) /\ res[p].kind = "occupied"
    /\ res[p].actual = JStr(<<"b">>)
    /\ file0.rooms[res[p].idx].paciente = JStr(<<>>)
    /\ call[p].pac = PacA

(***************************************************************************)
(* C4. When two reservations of the same free room for different patients  *)
(* overlap, both can return ok = true, and once both have committed the    *)
(* file holds the patient of the later commit only.                        *)
(***************************************************************************)
Reserved(p) == DoneReserva(p) /\ res[p].kind = "reserved"

LastWriterWins ==
  \A p, q \in Procs :
    (p # q /\ Reserved(p) /\ Reserved(q) /\ res[p].idx = res[q].idx /\ lastWriter = q)
      => file.rooms[res[q].idx].paciente = JStr(Strip(call[q].pac))

\* both calls returned ok for the same room and the first patient is gone
LostUpdate ==
  \E p, q \in Procs :
    /\ p # q /\ Reserved(p) /\ Reserved(q)
    /\ res[p].idx = res[q].idx
    /\ lastWriter = q
    /\ call[p].pac = PacA /\ call[q].pac = PacB
    /\ file.rooms[res[q].idx].paciente = JStr(<<"b">>)

(***************************************************************************)
(* C5. Whatever the interleaving of two calls, and wherever a process      *)
(* stops, the content at the dataset path is a whole document: the one     *)
(* that was there at the start as long as no replace has been done, and    *)
(* after that the whole document of a call that did its replace.           *)
(***************************************************************************)
FileAlwaysWhole ==
  /\ file.chunks = DumpChunks
  /\ IF \A p \in Procs : ~wrote[p]
       THEN file = file0
       ELSE \E p \in Procs : wrote[p] /\ file = FileOf("doc", data[p])

\* a process stopped with its temporary file half written, and the other
\* process read the dataset
InterruptedSave ==
  \E p, q \in Procs :
    /\ pc[p] = "crashed" /\ tmp[p].exists
    /\ tmp[p].chunks > 0 /\ tmp[p].chunks < DumpChunks
    /\ pc[q] = "done" /\ res[q].op = "disponibles" /\ res[q].ok

InvertedIsInvalidSchedule ==
  \A p \in Procs :
    DoneReserva(p) =>
      \A k \in {Facts(p)} :
        (k.name /\ k.time /\ k.inverted) => res[p].kind = "badschedule"

(***************************************************************************)
(* C8. Every call of the three tools ends by returning a structured        *)
(* result: none ends with an exception leaving the function.               *)
(***************************************************************************)
AlwaysStructured == \A p \in Procs : pc[p] = "done" => res[p].kind # "fault"

(***************************************************************************)
(* C9. With the dataset file present, the failure a reservation reports is *)
(* that of the lowest-numbered failing step among (1) name non-empty,      *)
(* (2) time parses, (3) room resolves, (4) schedule parses, (5) time in    *)
(* range, (6) room free; steps 3 to 6 are those of a file that loads.      *)
(***************************************************************************)
LowestFailing(k) ==
  IF ~k.name THEN "noname"
  ELSE IF ~k.time THEN "badtime"
  ELSE IF k.target = 0 THEN "notfound"
  ELSE IF ~k.sched THEN "badschedule"
  ELSE IF ~k.within THEN "outofhours"
  ELSE IF k.taken THEN "occupied"
  ELSE "none"

StepsInOrder ==
  \A p \in Procs :
    (DoneReserva(p) /\ fileAtCall[p].kind # "missing") =>
      \A low \in {LowestFailing(Facts(p))} :
        /\ low \in {"noname", "badtime"} => res[p].kind = low
        /\ (Parseable(fileAtCall[p]) /\ low # "none") => res[p].kind = low
        /\ res[p].kind \in ValidationFailures =>
             \/ res[p].kind = low
             \/ res[p].kind = "occupied" /\ low = "none"

\* an occupied room requested outside its hours is reported as out of hours
OccupiedOutOfHours ==
  \E p \in Procs :
    /\ DoneReserva(p) /\ res[p].kind = "outofhours"
    /\ Facts(p).taken

(***************************************************************************)
(* C10. The file always has the rooms it had at the start, in the same     *)
(* order, with the same name, specialty, location and hours; and a         *)
(* reservation that succeeds changes the occupant of the room it resolved  *)
(* to and nothing else.                                                    *)
(***************************************************************************)
SameRooms ==
  /\ file.kind = file0.kind
  /\ Len(file.rooms) = Len(file0.rooms)
  /\ \A i \in 1..Len(file.rooms) :
       /\ file.rooms[i].nombre = file0.rooms[i].nombre
       /\ file.rooms[i].especialidad = file0.rooms[i].especialidad
       /\ file.rooms[i].ubicacion = file0.rooms[i].ubicacion
       /\ file.rooms[i].horario = file0.rooms[i].horario

OnlyTargetChanges ==
  \A p \in Procs :
    (DoneReserva(p) /\ res[p].ok) =>
      \A i \in {Target(p)} :
        file.rooms =
          [fileAtCall[p].rooms EXCEPT ![i].paciente = JStr(Strip(call[p].pac))]

FrameKept == SameRooms /\ OnlyTargetChanges

\* the second of two rooms was reserved, beside an occupied first room
ReservedSecondRoom ==
  \E p \in Procs :
    /\ DoneReserva(p) /\ res[p].ok /\ res[p].idx = 2
    /\ file.rooms[1].paciente = JStr(PacZ)
    /\ file.rooms[2].paciente # file0.rooms[2].paciente

(***************************************************************************)
(* C11. On a dataset that loads, get_consultorios_disponibles reports      *)
(* exactly the rooms whose occupant is empty (no value, or the empty       *)
(* string) and, when a filter is given, whose specialty name equals the    *)
(* filter ignoring case (and, as the weakest reading, surrounding blanks), *)
(* in the order of the dataset; and it returns the "none available"        *)
(* result, with ok = true, exactly when there is no such room.             *)
(***************************************************************************)
DoneListing(p) == pc[p] = "done" /\ res[p].op = "disponibles"

EmptyOccupant(v) == v.t \in {"absent", "null"} \/ (v.t = "str" /\ v.s = <<>>)

FilterGiven(filtro) == filtro.t = "str" /\ filtro.s # <<>>

SpecialtyIs(room, filtro) ==
  /\ room.especialidad.t = "obj"
  /\ room.especialidad.nombre.t = "str"
  /\ Lower(Strip(room.especialidad.nombre.s)) = Lower(Strip(filtro.s))

\* the rooms the claim says are reported
Wanted(rooms, filtro) ==
  {i \in 1..Len(rooms) :
     /\ EmptyOccupant(rooms[i].paciente)
     /\ FilterGiven(filtro) => SpecialtyIs(rooms[i], filtro)}

\* seq enumerates the set S of indexes in increasing order
InOrderExactly(seq, S) ==
  /\ {seq[k] : k \in 1..Len(seq)} = S
  /\ \A j, k \in 1..Len(seq) : j < k => seq[j] < seq[k]

ListsExactlyTheFree ==
  \A p \in Procs :
    (DoneListing(p) /\ Parseable(fileAtCall[p])) =>
      \A w \in {Wanted(Consultorios(fileAtCall[p]), call[p].filtro)} :
        /\ res[p].ok
        /\ res[p].kind = "none" <=> w = {}
        /\ w # {} => res[p].kind = "listing" /\ InOrderExactly(res[p].listed, w)

\* the same, for the datasets in which every room reported has its hours
ListsExactlyWhenPrintable ==
  \A p \in Procs :
    (DoneListing(p) /\ Parseable(fileAtCall[p])) =>
      \A w \in {Wanted(Consultorios(fileAtCall[p]), call[p].filtro)} :
        (\A i \in w : HorarioKeys(fileAtCall[p].rooms[i])) =>
          /\ res[p].ok
          /\ res[p].kind = "none" <=> w = {}
          /\ w # {} => res[p].kind = "listing" /\ InOrderExactly(res[p].listed, w)

(***************************************************************************)
(* C12. The range check is inclusive at both ends: a reservation with a    *)
(* valid name and time that resolves to a room whose hours parse is        *)
(* refused as out of hours if and only if not start <= time <= end,        *)
(* compared as times of day, and then the file is left as it was; so a     *)
(* request at exactly the start or exactly the end of 08:00-12:00 is not   *)
(* refused as out of hours, and one at 12:01 or at 13:00 is.               *)
(***************************************************************************)
TargetHours(p) == fileAtCall[p].rooms[Target(p)].horario

InclusiveRange ==
  \A p \in Procs :
    DoneReserva(p) =>
      \A k \in {Facts(p)} :
        (k.name /\ k.time /\ k.target > 0 /\ k.sched) =>
          /\ res[p].kind = "outofhours" <=> ~k.within
          /\ res[p].kind = "outofhours" => (~res[p].ok /\ file = fileAtCall[p])
          /\ TargetHours(p) = HorOk =>
               /\ call[p].hora \in {T0800, T1200} => res[p].kind # "outofhours"
               /\ call[p].hora \in {T0759, T1201, T1300} => res[p].kind = "outofhours"

\* a free room was reserved at exactly the end of its hours
ReservedAtEnd ==
  \E p \in Procs :
    /\ DoneReserva(p) /\ res[p].ok
    /\ call[p].hora = T1200
    /\ TargetHours(p) = HorOk

(***************************************************************************)
(* C13. The time argument is accepted exactly when it has the form HH:MM:  *)
(* two digits of an hour from 00 to 23, a colon, two digits of a minute    *)
(* from 00 to 59. A reservation with a name, on a dataset file that is     *)
(* there, returns the invalid-time failure if and only if its time         *)
(* argument is not of that form.                                           *)
(***************************************************************************)
IsHHMM(s) ==
  /\ Len(s) = 5
  /\ s[3] = ":"
  /\ s[1] \in Digits /\ s[2] \in Digits /\ s[4] \in Digits /\ s[5] \in Digits
  /\ 10 * DigitVal(s[1]) + DigitVal(s[2]) <= 23
  /\ 10 * DigitVal(s[4]) + DigitVal(s[5]) <= 59

OnlyHHMM ==
  \A p \in Procs :
    (DoneReserva(p) /\ fileAtCall[p].kind # "missing" /\ Strip(call[p].pac) # <<>>)
      => (res[p].kind = "badtime" <=> ~IsHHMM(call[p].hora))

\* the same, but for one-digit hours and minutes, which strptime takes
OnlyHHMMOrShort ==
  \A p \in Procs :
    (DoneReserva(p) /\ fileAtCall[p].kind # "missing" /\ Strip(call[p].pac) # <<>>
       /\ call[p].hora # T9c5)
      => (res[p].kind = "badtime" <=> ~IsHHMM(call[p].hora))

(***************************************************************************)
(* C14. What the claim and its amendment share: for a reservation with a   *)
(* valid name and time on a dataset that loads, given the room "want" that *)
(* the selector denotes (0 when none): the call fails as not found exactly *)
(* when there is none; otherwise it is that room which is examined, no     *)
(* other room changes, and when that room is occupied nothing is reserved, *)
(* whatever rooms of the same name come after it.                          *)
(***************************************************************************)
ResolvesTo(p, want) ==
  /\ res[p].kind = "notfound" <=> want = 0
  /\ want > 0 =>
       /\ res[p].idx = want
       /\ \A i \in 1..Len(fileAtCall[p].rooms) :
            i # want => file.rooms[i] = fileAtCall[p].rooms[i]
       /\ NonEmpty(fileAtCall[p].rooms[want].paciente) =>
            (~res[p].ok /\ file = fileAtCall[p])
       /\ res[p].ok => file.rooms[want].paciente = JStr(Strip(call[p].pac))

Resolving(p) ==
  /\ DoneReserva(p) /\ Parseable(fileAtCall[p])
  /\ Strip(call[p].pac) # <<>> /\ ParseTime(call[p].hora) >= 0

\* the lowest index of a set of indexes, 0 for the empty set
First(S) == IF S = {} THEN 0 ELSE CHOOSE i \in S : \A j \in S : i <= j

(***************************************************************************)
(* C14, as claimed. The target is the first room in dataset order whose    *)
(* name equals the selector, ignoring case; an absent or empty selector    *)
(* denotes no room.                                                        *)
(***************************************************************************)
EqualIgnoringCase(room, sel) ==
  sel.t = "str" /\ sel.s # <<>> /\ room.nombre.t = "str"
    /\ Lower(room.nombre.s) = Lower(sel.s)

FirstExactMatch ==
  \A p \in Procs :
    Resolving(p) =>
      \A rooms \in {fileAtCall[p].rooms} :
        ResolvesTo(p, First({i \in 1..Len(rooms) :
                               EqualIgnoringCase(rooms[i], call[p].sel)}))

(***************************************************************************)
(* C14, amended. The target is the first room in dataset order whose name  *)
(* equals the selector, ignoring case, once the blanks around both have    *)
(* been removed; an absent or empty selector denotes no room.              *)
(***************************************************************************)
EqualTrimmedIgnoringCase(room, sel) ==
  sel.t = "str" /\ sel.s # <<>> /\ room.nombre.t = "str"
    /\ Lower(Strip(room.nombre.s)) = Lower(Strip(sel.s))

FirstTrimmedMatch ==
  \A p \in Procs :
    Resolving(p) =>
      \A rooms \in {fileAtCall[p].rooms} :
        ResolvesTo(p, First({i \in 1..Len(rooms) :
                               EqualTrimmedIgnoringCase(rooms[i], call[p].sel)}))

\* the first of two rooms "r" is occupied and the second one free; the
\* reservation of "r" was refused as occupied
DuplicateRefused ==
  \E p \in Procs :
    /\ DoneReserva(p) /\ res[p].kind = "occupied" /\ res[p].idx = 1
    /\ Len(file.rooms) = 2
    /\ file.rooms[2] = RoomFree(NameR, EspO)
    /\ file.rooms[1] = RoomTaken(NameR, EspO)

(***************************************************************************)
(* C15. In every save the replace is done only once the whole text of the  *)
(* temporary file has been written and has reached the storage device; so  *)
(* the content at the dataset path is whole at every point, also after the *)
(* machine has stopped right after the replace.                            *)
(***************************************************************************)
ReplaceAfterFlush ==
  \A p \in Procs :
    (pc[p] = "replace" /\ wrote'[p]) =>
      /\ tmp[p].exists /\ tmp[p].chunks = DumpChunks
      /\ stored[p] = DumpChunks

TargetWholeAfter == file'.chunks = DumpChunks

FlushedBeforeReplace == [][ReplaceAfterFlush /\ TargetWholeAfter]_vars

\* what does hold: the replace comes after the whole text was written to the
\* temporary file, and without a stop of the machine the target is whole
WrittenBeforeReplace ==
  [][ /\ \A p \in Procs :
           (pc[p] = "replace" /\ wrote'[p]) =>
             (tmp[p].exists /\ tmp[p].chunks = DumpChunks)
      /\ (\E p \in Procs : pc'[p] # "off") => TargetWholeAfter ]_vars

\* the machine stopped after a replace and the target lacks part of its text
ShortAfterPowerLoss ==
  /\ \A p \in Procs : pc[p] = "off"
  /\ \E p \in Procs : wrote[p]
  /\ file.chunks < DumpChunks

(***************************************************************************)
(* C16, as claimed. When two reservations of two different rooms have both *)
(* returned ok = true, the file records both patients.                     *)
(***************************************************************************)
BothRecorded ==
  \A p, q \in Procs :
    (p # q /\ Reserved(p) /\ Reserved(q) /\ res[p].idx # res[q].idx) =>
      /\ file.rooms[res[p].idx].paciente = JStr(Strip(call[p].pac))
      /\ file.rooms[res[q].idx].paciente = JStr(Strip(call[q].pac))

(***************************************************************************)
(* C16, amended. When two reservations of two different rooms have both    *)
(* returned ok = true, the file is the list the later committer had loaded *)
(* with its own room marked: it records the later committer's patient, and *)
(* for the other room what the later committer had read, which is the      *)
(* other patient only if the other commit came before that read; when the  *)
(* two calls overlapped (both read before either commit) the other         *)
(* reservation is erased.                                                  *)
(***************************************************************************)
LaterCommitErasesOther ==
  \A p, q \in Procs :
    (p # q /\ Reserved(p) /\ Reserved(q) /\ res[p].idx # res[q].idx
       /\ lastWriter = q) =>
      /\ file.rooms[res[q].idx].paciente = JStr(Strip(call[q].pac))
      /\ file.rooms[res[p].idx].paciente = fileAtCall[q].rooms[res[p].idx].paciente
      /\ fileAtCall[q] = fileAtCall[p] =>
           file.rooms[res[p].idx].paciente = JStr(<<>>)

\* both calls returned ok, for rooms 1 and 2, and the room of the first to
\* commit is free in the file
ErasedReservation ==
  \E p, q \in Procs :
    /\ p # q /\ Reserved(p) /\ Reserved(q)
    /\ res[p].idx = 1 /\ res[q].idx = 2
    /\ lastWriter = q
    /\ file.rooms[1].paciente = JStr(<<>>)
    /\ file.rooms[2].paciente = JStr(Strip(call[q].pac))

(***************************************************************************)
(* C17. The listing and the reservation agree on which rooms are free,     *)
(* whatever the occupant value in the file: a listing without filter       *)
(* reports exactly the rooms that pass the occupancy check of the          *)
(* reservation, and a reservation that reaches the occupancy check is      *)
(* refused as occupied exactly when the listing does not report its room.  *)
(***************************************************************************)
ListingAgrees(p, rooms) ==
  (DoneListing(p) /\ ~FilterGiven(call[p].filtro) /\ Parseable(fileAtCall[p])
     /\ res[p].kind \in {"none", "listing"}) =>
    {res[p].listed[k] : k \in 1..Len(res[p].listed)}
      = {i \in 1..Len(rooms) : ~Occupied(rooms[i])}

ReserveAgrees(p, rooms) ==
  DoneReserva(p) =>
    \A k \in {Facts(p)} :
      (k.name /\ k.time /\ k.target > 0 /\ k.sched /\ k.within) =>
        (res[p].kind = "occupied" <=> ~ListedFree(rooms[k.target]))

AgreeOnFree ==
  \A p \in Procs :
    \A rooms \in {Consultorios(fileAtCall[p])} :
      ListingAgrees(p, rooms) /\ ReserveAgrees(p, rooms)

\* the occupant values on which the two do agree: no field, the empty
\* string, and a name
PlainOccupant(v) == v.t = "absent" \/ (v.t = "str" /\ (v.s = <<>> \/ Strip(v.s) # <<>>))

AgreeOnPlainOccupants ==
  \A p \in Procs :
    \A rooms \in {Consultorios(fileAtCall[p])} :
      (\A i \in 1..Len(rooms) : PlainOccupant(rooms[i].paciente)) =>
        ListingAgrees(p, rooms) /\ ReserveAgrees(p, rooms)

====
